---- MODULE Spec2Model ----
(***************************************************************************)
(* Model of src/src/overlappingmodel.rs (rust-wfc): the UncertainCell      *)
(* bitsets with entropy/collapse, and the OverlappingModel operations that *)
(* build the palette and the block catalog from a seed image, pick the     *)
(* lowest-entropy cell and list the states valid at a position.            *)
(*                                                                         *)
(* Array2<T> is a sequence of rows; coordinates are the 0-based (row, col) *)
(* pairs of ndarray.  BitVec and Vec are functions on 0..(len-1), so that  *)
(* indices are the ones the code uses.  An RGB colour is a natural number, *)
(* ordered as the colours are.                                             *)
(***************************************************************************)
EXTENDS Integers, Sequences, FiniteSets, TLC

VARIABLES seed_image, output_dims, block_size, pc,
          palette, states, model, ret

vars == <<seed_image, output_dims, block_size, pc, palette, states, model, ret>>

(***************************************************************************)
(* f64.  A finite value is kept in fixed point: v stands for v / Scale.    *)
(* NaN and the infinities are values of their own, and the operations      *)
(* propagate them as IEEE 754 does.  Option<f64> adds None.                *)
(***************************************************************************)
Scale == 10000
Ln2Fix == 6931
F64MaxFix == 2000000000

NaN == [k |-> "nan", v |-> 0]
PosInf == [k |-> "inf", v |-> 1]
NegInf == [k |-> "inf", v |-> -1]
None == [k |-> "none", v |-> 0]
Fin(v) == [k |-> "fin", v |-> v]
F64_MAX == Fin(F64MaxFix)

Abs(n) == IF n < 0 THEN -n ELSE n
Sgn(n) == IF n < 0 THEN -1 ELSE IF n = 0 THEN 0 ELSE 1

IsNaN(a) == a.k = "nan"

\* usize as f64
FromUsize(n) == Fin(n * Scale)

\* the position of a non-NaN value on the extended real line
Key(a) == IF a.k = "inf" THEN a.v * (F64MaxFix + 1) ELSE a.v

\* a > b and a <= b: false as soon as one side is NaN
Gt(a, b) == ~IsNaN(a) /\ ~IsNaN(b) /\ Key(a) > Key(b)
Le(a, b) == ~IsNaN(a) /\ ~IsNaN(b) /\ Key(a) <= Key(b)

Neg(a) == IF IsNaN(a) THEN NaN ELSE [k |-> a.k, v |-> -a.v]

Add(a, b) ==
    IF IsNaN(a) \/ IsNaN(b) THEN NaN
    ELSE IF a.k = "inf" /\ b.k = "inf" THEN (IF a.v = b.v THEN a ELSE NaN)
    ELSE IF a.k = "inf" THEN a
    ELSE IF b.k = "inf" THEN b
    ELSE Fin(a.v + b.v)

Mul(a, b) ==
    IF IsNaN(a) \/ IsNaN(b) THEN NaN
    ELSE IF a.k = "inf" \/ b.k = "inf"
         THEN (IF Sgn(a.v) * Sgn(b.v) = 0 THEN NaN
               ELSE [k |-> "inf", v |-> Sgn(a.v) * Sgn(b.v)])
    ELSE Fin(Sgn(a.v) * Sgn(b.v) * ((Abs(a.v) * Abs(b.v)) \div Scale))

Div(a, b) ==
    IF IsNaN(a) \/ IsNaN(b) THEN NaN
    ELSE IF a.k = "inf" /\ b.k = "inf" THEN NaN
    ELSE IF a.k = "inf" THEN [k |-> "inf", v |-> a.v * (IF b.v < 0 THEN -1 ELSE 1)]
    ELSE IF b.k = "inf" THEN Fin(0)
    ELSE IF b.v = 0 THEN (IF a.v = 0 THEN NaN ELSE [k |-> "inf", v |-> Sgn(a.v)])
    ELSE Fin(Sgn(a.v) * Sgn(b.v) * ((Abs(a.v) * Scale) \div Abs(b.v)))

\* ln of a mantissa m with Scale <= m < 2 * Scale, by the atanh series
LnMant(m) ==
    LET t == ((m - Scale) * Scale) \div (m + Scale)
        t2 == (t * t) \div Scale
        t3 == (t * t2) \div Scale
        t5 == (t3 * t2) \div Scale
        t7 == (t5 * t2) \div Scale
    IN 2 * (t + (t3 \div 3) + (t5 \div 5) + (t7 \div 7))

RECURSIVE LnFix(_)
LnFix(v) ==
    IF v >= 2 * Scale THEN Ln2Fix + LnFix(v \div 2)
    ELSE IF v < Scale THEN LnFix(v * 2) - Ln2Fix
    ELSE LnMant(v)

\* f64::ln: NaN below zero, -inf at zero
Ln(a) ==
    IF IsNaN(a) THEN NaN
    ELSE IF a.k = "inf" THEN (IF a.v > 0 THEN PosInf ELSE NaN)
    ELSE IF a.v < 0 THEN NaN
    ELSE IF a.v = 0 THEN NegInf
    ELSE Fin(LnFix(a.v))

\* Iterator::sum over a Vec of f64
RECURSIVE SumF64(_, _)
SumF64(f, n) == IF n = 0 THEN Fin(0) ELSE Add(SumF64(f, n - 1), f[n - 1])

(***************************************************************************)
(* Vec, BitVec and Array2 helpers                                          *)
(***************************************************************************)
VecLen(f) == Cardinality(DOMAIN f)
EmptyVec == [i \in {} |-> 0]

BitVecFromElem(n, b) == [i \in 0..(n - 1) |-> b]
BitVecNone(bv) == \A i \in DOMAIN bv : ~bv[i]
BitVecCount(bv) == Cardinality({i \in DOMAIN bv : bv[i]})
BitVecClear(bv) == [i \in DOMAIN bv |-> FALSE]
BitVecSet(bv, i, b) == [bv EXCEPT ![i] = b]

Dim(a) == <<Len(a), IF Len(a) = 0 THEN 0 ELSE Len(a[1])>>
At(a, coord) == a[coord[1] + 1][coord[2] + 1]

\* indexed_iter: the (row, col) indices of an array of shape dim, row-major
indexed_iter(dim) ==
    [i \in 1..(dim[1] * dim[2]) |-> <<(i - 1) \div dim[2], (i - 1) % dim[2]>>]

(***************************************************************************)
(* UncertainCell                                                           *)
(***************************************************************************)
UncertainCell_new(num_colors, num_states) ==
    [possible_colors |-> BitVecFromElem(num_colors, TRUE),
     possible_states |-> BitVecFromElem(num_states, TRUE)]

valid_color(cell, palette_index) == cell.possible_colors[palette_index]

\* the indices below n whose bit is set, in increasing order: what
\* zip(possible_states.iter()).filter(|&(_, p)| p) lets through
RECURSIVE Permitted(_, _)
Permitted(bv, n) ==
    IF n = 0 THEN <<>>
    ELSE IF bv[n - 1] THEN Append(Permitted(bv, n - 1), n - 1)
    ELSE Permitted(bv, n - 1)

RECURSIVE SumUsize(_, _)
SumUsize(s, n) == IF n = 0 THEN 0 ELSE SumUsize(s, n - 1) + s[n]

ZipLen(concrete_states, possible_states) ==
    IF VecLen(concrete_states) < VecLen(possible_states)
    THEN VecLen(concrete_states) ELSE VecLen(possible_states)

\* the term the second and third map of entropy make of one count
EntropyTerm(count, possible_state_count) ==
    LET x == Div(FromUsize(count), possible_state_count)
        y == Mul(x, Ln(x))
    IN Mul(y, Ln(y))

\* entropy with the test for a single permitted state left out
entropy_NoResolvedCase(cell, concrete_states) ==
    LET possible_states == cell.possible_states
        kept == Permitted(possible_states, ZipLen(concrete_states, possible_states))
        counts == [j \in 1..Len(kept) |-> concrete_states[kept[j]].count]
        possible_state_count == FromUsize(SumUsize(counts, Len(counts)))
        terms == [j \in 0..(Len(kept) - 1) |->
                     EntropyTerm(counts[j + 1], possible_state_count)]
    IN IF BitVecNone(possible_states) THEN None
       ELSE Neg(SumF64(terms, Len(kept)))

entropy(cell, concrete_states) ==
    LET possible_states == cell.possible_states
        kept == Permitted(possible_states, ZipLen(concrete_states, possible_states))
        counts == [j \in 1..Len(kept) |-> concrete_states[kept[j]].count]
        possible_state_count == FromUsize(SumUsize(counts, Len(counts)))
        terms == [j \in 0..(Len(kept) - 1) |->
                     EntropyTerm(counts[j + 1], possible_state_count)]
    IN IF BitVecNone(possible_states) THEN None
       ELSE IF BitVecCount(possible_states) = 1 THEN Fin(0)
       ELSE Neg(SumF64(terms, Len(kept)))

\* utils::masked_weighted_choice: the indices it can return, those the mask
\* permits and whose weight is not zero
masked_weighted_choice(concrete_states, mask) ==
    {i \in DOMAIN mask : mask[i] /\ i \in DOMAIN concrete_states
                          /\ concrete_states[i].count > 0}

\* collapse that sets the chosen bit and forgets to clear the others
collapse_NoClear(cell, chosen_state) ==
    [cell EXCEPT !.possible_states = BitVecSet(@, chosen_state, TRUE)]

collapse(cell, chosen_state) ==
    [cell EXCEPT !.possible_states = BitVecSet(BitVecClear(@), chosen_state, TRUE)]

(***************************************************************************)
(* OverlappingModel: palette and catalog                                   *)
(***************************************************************************)
\* image_data.iter(): the elements in row-major order
Elements(a) ==
    LET idx == indexed_iter(Dim(a)) IN [i \in 1..Len(idx) |-> At(a, idx[i])]

RECURSIVE Insert(_, _)
Insert(s, e) ==
    IF s = <<>> THEN <<e>>
    ELSE IF e < Head(s) THEN <<e>> \o s
    ELSE <<Head(s)>> \o Insert(Tail(s), e)

RECURSIVE Sort(_)
Sort(s) == IF s = <<>> THEN <<>> ELSE Insert(Sort(Tail(s)), Head(s))

\* Vec::dedup: drops an element equal to the one before it
RECURSIVE Dedup(_)
Dedup(s) ==
    IF Len(s) <= 1 THEN s
    ELSE IF s[1] = s[2] THEN Dedup(Tail(s))
    ELSE <<s[1]>> \o Dedup(Tail(s))

ToVec(s) == [i \in 0..(Len(s) - 1) |-> s[i + 1]]

build_color_palette(image_data) == ToVec(Dedup(Sort(Elements(image_data))))

\* the size x size block whose top left corner is at coord
Block(image_data, coord, size) ==
    [i \in 1..size |-> [j \in 1..size |-> image_data[coord[1] + i][coord[2] + j]]]

\* image_data.windows((size, size)): every block that fits, row-major; none when
\* the window is larger than the image
windows(image_data, size) ==
    LET d == Dim(image_data)
        rows == IF d[1] >= size THEN d[1] - size + 1 ELSE 0
        cols == IF d[2] >= size THEN d[2] - size + 1 ELSE 0
        idx == indexed_iter(<<rows, cols>>)
    IN [i \in 1..Len(idx) |-> Block(image_data, idx[i], size)]

\* HashMap: a function from the keys present to their values
HashMapNew == [key \in {} |-> 0]
HashMapPut(m, key, value) ==
    [q \in DOMAIN m \cup {key} |-> IF q = key THEN value ELSE m[q]]

\* *block_counts.entry(block).or_insert(first) += 1
CountBlock(block_counts, block, first) ==
    IF block \in DOMAIN block_counts
    THEN HashMapPut(block_counts, block, block_counts[block] + 1)
    ELSE HashMapPut(block_counts, block, first + 1)

RECURSIVE CountBlocks(_, _, _)
CountBlocks(ws, n, first) ==
    IF n = 0 THEN HashMapNew
    ELSE CountBlock(CountBlocks(ws, n - 1, first), ws[n], first)

\* the catalog as a HashMap, with or_insert(1) where the code has or_insert(0)
block_counts_of_FirstOne(image_data, size) ==
    LET ws == windows(image_data, size) IN CountBlocks(ws, Len(ws), 1)

block_counts_of(image_data, size) ==
    LET ws == windows(image_data, size) IN CountBlocks(ws, Len(ws), 0)

\* block_counts.into_iter().collect(): the entries in any order
build_block_frequency_map(image_data, size) ==
    LET m == block_counts_of(image_data, size)
        n == Cardinality(DOMAIN m)
        orders == {f \in [0..(n - 1) -> DOMAIN m] :
                      \A i, j \in 0..(n - 1) : i # j => f[i] # f[j]}
    IN {[i \in 0..(n - 1) |-> [block |-> f[i], count |-> m[f[i]]]] : f \in orders}

(***************************************************************************)
(* OverlappingModel: cell selection and state compatibility                *)
(***************************************************************************)
NoCoord == <<>>
Ok(index) == [tag |-> "Ok", at |-> index]
NoValidStates(index) == [tag |-> "NoValidStates", at |-> index]
UnexpectedNaN(index) == [tag |-> "UnexpectedNaN", at |-> index]
AllStatesDecided == [tag |-> "AllStatesDecided", at |-> NoCoord]

\* the loop of find_lowest_nonzero_entropy_coordinates from the i-th index on;
\* entropies[index] is what cell.entropy(&self.states) returns for that cell
RECURSIVE scan(_, _, _, _, _)
scan(entropies, idx, i, output, lowest) ==
    IF i > Len(idx)
    THEN (IF output = NoCoord THEN AllStatesDecided ELSE Ok(output))
    ELSE LET index == idx[i]
             u == entropies[index]
         IN IF u = None THEN NoValidStates(index)
            ELSE IF Gt(u, Fin(0))
                 THEN (IF Le(u, lowest) THEN scan(entropies, idx, i + 1, index, u)
                       ELSE IF IsNaN(u) THEN UnexpectedNaN(index)
                       ELSE scan(entropies, idx, i + 1, output, lowest))
            ELSE scan(entropies, idx, i + 1, output, lowest)

\* indexed_iter walking the columns first
scan_order_ColumnMajor(dim) ==
    [i \in 1..(dim[1] * dim[2]) |-> <<(i - 1) % dim[1], (i - 1) \div dim[1]>>]

\* the order in which self.model.indexed_iter() visits the cells
scan_order(dim) == indexed_iter(dim)

scan_all(entropies, dim) == scan(entropies, scan_order(dim), 1, NoCoord, F64_MAX)

Coords(dim) == {<<r, c>> : r \in 0..(dim[1] - 1), c \in 0..(dim[2] - 1)}

find_lowest_nonzero_entropy_coordinates(m, concrete_states) ==
    scan_all([index \in Coords(Dim(m)) |-> entropy(At(m, index), concrete_states)],
             Dim(m))

\* slice::binary_search on the sorted palette, between lo and hi
RECURSIVE binary_search(_, _, _, _)
binary_search(pal, color, lo, hi) ==
    IF lo >= hi THEN -1
    ELSE LET mid == lo + ((hi - lo) \div 2)
         IN IF pal[mid] = color THEN mid
            ELSE IF pal[mid] < color THEN binary_search(pal, color, mid + 1, hi)
            ELSE binary_search(pal, color, lo, mid)

color_to_index(pal, color) == binary_search(pal, color, 0, VecLen(pal))

valid_coordinate(m, coord) == coord[1] < Dim(m)[1] /\ coord[2] < Dim(m)[2]

\* the test a pixel of a state has to pass, the colour test always passing
pixel_ok_AnyColor(m, pal, state, p, coord) ==
    LET offset_coord == <<p[1] + coord[1], p[2] + coord[2]>>
    IN valid_coordinate(m, offset_coord)

\* the two tests of the inner loop for the pixel at coord of state
pixel_ok(m, pal, state, p, coord) ==
    LET color == color_to_index(pal, At(state, coord))
        offset_coord == <<p[1] + coord[1], p[2] + coord[2]>>
    IN valid_coordinate(m, offset_coord) /\ valid_color(At(m, offset_coord), color)

\* the state reaches valid_state_indices.push: no pixel made the loop continue 'state
state_ok(m, pal, state, p) ==
    LET idx == indexed_iter(Dim(state))
    IN \A i \in 1..Len(idx) : pixel_ok(m, pal, state, p, idx[i])

RECURSIVE valid_upto(_, _, _, _, _)
valid_upto(m, pal, concrete_states, p, n) ==
    IF n = 0 THEN <<>>
    ELSE IF state_ok(m, pal, concrete_states[n - 1].block, p)
         THEN Append(valid_upto(m, pal, concrete_states, p, n - 1), n - 1)
         ELSE valid_upto(m, pal, concrete_states, p, n - 1)

valid_states_at_position(m, pal, concrete_states, position) ==
    ToVec(valid_upto(m, pal, concrete_states, position, VecLen(concrete_states)))

(***************************************************************************)
(* Inputs                                                                  *)
(***************************************************************************)
MaxImgH == 2
MaxImgW == 2
NumColors == 2
MaxBlock == 2

\* every seed image within the bounds
Images ==
    UNION {[1..h -> [1..w -> 0..(NumColors - 1)]] : h \in 1..MaxImgH, w \in 1..MaxImgW}

\* the runs whose grid is exercised: seed image, block size, (x, y) of the output
Configs ==
    { [image |-> << <<0, 1>> >>, size |-> 1, dims |-> <<2, 2>>],
      [image |-> << <<0, 0>>, <<0, 0>> >>, size |-> 1, dims |-> <<2, 2>>],
      [image |-> << <<0, 0, 1>> >>, size |-> 1, dims |-> <<2, 2>>],
      [image |-> << <<0, 0, 1>>, <<0, 1, 1>> >>, size |-> 2, dims |-> <<2, 2>>],
      [image |-> << <<0, 1>>, <<1, 0>> >>, size |-> 2, dims |-> <<3, 2>>],
      [image |-> << <<0, 1, 2>> >>, size |-> 1, dims |-> <<2, 1>>],
      [image |-> << <<0, 1>> >>, size |-> 2, dims |-> <<1, 2>>] }

NoCall == [op |-> "none", pos |-> NoCoord, val |-> None, before |-> EmptyVec]

InitWith(image, size, dims) ==
    /\ seed_image = image
    /\ block_size = size
    /\ output_dims = dims
    /\ pc = "new"
    /\ palette = EmptyVec
    /\ states = EmptyVec
    /\ model = <<>>
    /\ ret = NoCall

Init == \E cfg \in Configs : InitWith(cfg.image, cfg.size, cfg.dims)

\* the grids small enough to scan under every vector of entropies
MaxScanCells == 4

InitScan ==
    \E cfg \in {c \in Configs : c.dims[1] * c.dims[2] <= MaxScanCells} :
        InitWith(cfg.image, cfg.size, cfg.dims)

InitBuild == \E image \in Images, size \in 1..MaxBlock : InitWith(image, size, <<1, 1>>)

(***************************************************************************)
(* Operations                                                              *)
(***************************************************************************)
from_seed_image ==
    /\ pc = "new"
    /\ \E catalog \in build_block_frequency_map(seed_image, block_size) :
          LET pal == build_color_palette(seed_image)
              num_colors == VecLen(pal)
              num_states == VecLen(catalog)
              x == output_dims[1]
              y == output_dims[2]
          IN /\ palette' = pal
             /\ states' = catalog
             /\ model' = [r \in 1..y |->
                             [c \in 1..x |-> UncertainCell_new(num_colors, num_states)]]
    /\ pc' = "ready"
    /\ ret' = [op |-> "from_seed_image", pos |-> NoCoord, val |-> None,
               before |-> EmptyVec]
    /\ UNCHANGED <<seed_image, output_dims, block_size>>

Positions == Coords(Dim(model))

SetCell(m, coord, cell) == [m EXCEPT ![coord[1] + 1][coord[2] + 1] = cell]

Entropy(pos) ==
    /\ pc = "ready"
    /\ ret' = [op |-> "entropy", pos |-> pos,
               val |-> entropy(At(model, pos), states), before |-> EmptyVec]
    /\ UNCHANGED <<seed_image, output_dims, block_size, pc, palette, states, model>>

Collapse(pos) ==
    /\ pc = "ready"
    /\ \E chosen_state \in masked_weighted_choice(states, At(model, pos).possible_states) :
          model' = SetCell(model, pos, collapse(At(model, pos), chosen_state))
    /\ ret' = [op |-> "collapse", pos |-> pos, val |-> None,
               before |-> At(model, pos).possible_states]
    /\ UNCHANGED <<seed_image, output_dims, block_size, pc, palette, states>>

FindLowest ==
    /\ pc = "ready"
    /\ ret' = [op |-> "find", pos |-> NoCoord,
               val |-> find_lowest_nonzero_entropy_coordinates(model, states),
               before |-> EmptyVec]
    /\ UNCHANGED <<seed_image, output_dims, block_size, pc, palette, states, model>>

ValidStatesAt(pos) ==
    /\ pc = "ready"
    /\ ret' = [op |-> "valid_states", pos |-> pos,
               val |-> valid_states_at_position(model, palette, states, pos),
               before |-> EmptyVec]
    /\ UNCHANGED <<seed_image, output_dims, block_size, pc, palette, states, model>>

\* the propagation step of the driver: it forbids one state of one cell
ForbidState(pos, i) ==
    /\ pc = "ready"
    /\ At(model, pos).possible_states[i]
    /\ model' = SetCell(model, pos,
                        [At(model, pos) EXCEPT !.possible_states = BitVecSet(@, i, FALSE)])
    /\ ret' = [op |-> "forbid_state", pos |-> pos, val |-> None,
               before |-> At(model, pos).possible_states]
    /\ UNCHANGED <<seed_image, output_dims, block_size, pc, palette, states>>

\* the propagation step of the driver: it forbids one colour of one cell
ForbidColor(pos, i) ==
    /\ pc = "ready"
    /\ At(model, pos).possible_colors[i]
    /\ model' = SetCell(model, pos,
                        [At(model, pos) EXCEPT !.possible_colors = BitVecSet(@, i, FALSE)])
    /\ ret' = [op |-> "forbid_color", pos |-> pos, val |-> None,
               before |-> At(model, pos).possible_colors]
    /\ UNCHANGED <<seed_image, output_dims, block_size, pc, palette, states>>

\* the entropies a scan can be handed: None, 0, NaN and finite positive values
EntropyValues == {None, Fin(0), NaN, Fin(5000), Fin(Ln2Fix)}

\* the scan of find_lowest_nonzero_entropy_coordinates over given entropies
Scan ==
    /\ pc = "ready"
    /\ \E entropies \in [Positions -> EntropyValues] :
          ret' = [op |-> "scan", pos |-> NoCoord,
                  val |-> scan_all(entropies, Dim(model)), before |-> entropies]
    /\ UNCHANGED <<seed_image, output_dims, block_size, pc, palette, states, model>>

\* the possible_states of the grid: construction, entropy, collapse, selection
Next ==
    \/ from_seed_image
    \/ \E pos \in Positions : Entropy(pos)
    \/ \E pos \in Positions : Collapse(pos)
    \/ FindLowest
    \/ \E pos \in Positions : \E i \in DOMAIN states : ForbidState(pos, i)

Spec == Init /\ [][Next]_vars

\* the possible_colors of the grid: construction and state compatibility
NextColors ==
    \/ from_seed_image
    \/ \E pos \in Positions : ValidStatesAt(pos)
    \/ \E pos \in Positions : \E i \in DOMAIN palette : ForbidColor(pos, i)

SpecColors == Init /\ [][NextColors]_vars

\* construction alone, over every seed image within the bounds
NextBuild == from_seed_image

SpecBuild == InitBuild /\ [][NextBuild]_vars

\* the selection loop over every vector of entropies
NextScan ==
    \/ from_seed_image
    \/ Scan

SpecScan == InitScan /\ [][NextScan]_vars

TypeOK == pc \in {"new", "ready"}

(***************************************************************************)
(* Vocabulary of the properties                                            *)
(***************************************************************************)
StatesOf(pos) == At(model, pos).possible_states
ColorsOf(pos) == At(model, pos).possible_colors

Contradicted(pos) == \A i \in DOMAIN StatesOf(pos) : ~StatesOf(pos)[i]
Resolved(pos) == Cardinality({i \in DOMAIN StatesOf(pos) : StatesOf(pos)[i]}) = 1
Undecided(pos) == Cardinality({i \in DOMAIN StatesOf(pos) : StatesOf(pos)[i]}) >= 2

\* the place of a coordinate in the row-major walk of the grid
Rank(coord) == coord[1] * Dim(model)[2] + coord[2]

\* the pixels of catalog state s, as (coordinate in the block, target cell) pairs
\* when the state is placed at position p
PixelsOf(s) == Coords(Dim(states[s].block))
Target(p, coord) == <<p[1] + coord[1], p[2] + coord[2]>>
InGrid(t) == t \in Positions
PaletteIndexOf(color) == CHOOSE i \in DOMAIN palette : palette[i] = color

\* the pixel of s at coord, with s placed at p, asks for a colour its target
\* cell no longer allows
Forbidden(s, p, coord) ==
    /\ InGrid(Target(p, coord))
    /\ ~ColorsOf(Target(p, coord))[PaletteIndexOf(At(states[s].block, coord))]

Returned == {ret.val[i] : i \in DOMAIN ret.val}

\* the Shannon term p * ln(p) of one count
EntropyTermShannon(count, possible_state_count) ==
    LET x == Div(FromUsize(count), possible_state_count)
    IN Mul(x, Ln(x))

\* -sum p_i * ln(p_i) over the permitted states, p_i = count_i / sum of the counts
ShannonEntropy(pos) ==
    LET kept == Permitted(StatesOf(pos), VecLen(states))
        counts == [j \in 1..Len(kept) |-> states[kept[j]].count]
        total == FromUsize(SumUsize(counts, Len(counts)))
        terms == [j \in 0..(Len(kept) - 1) |->
                     EntropyTermShannon(counts[j + 1], total)]
    IN IF Contradicted(pos) THEN None
       ELSE IF Resolved(pos) THEN Fin(0)
       ELSE Neg(SumF64(terms, Len(kept)))

FinitePositive(u) == u.k = "fin" /\ u.v > 0

(***************************************************************************)
(* Properties                                                              *)
(***************************************************************************)

\* C1: valid_states_at_position returns exactly the states none of whose pixels
\* lands on a cell of the grid that forbids its colour; a pixel that lands
\* outside the grid never rejects a state.
C1_EligibleIgnoresOutOfBounds ==
    ret.op = "valid_states" =>
        Returned = {s \in DOMAIN states :
                       \A coord \in PixelsOf(s) : ~Forbidden(s, ret.pos, coord)}

\* C2: when find_lowest_nonzero_entropy_coordinates returns AllStatesDecided,
\* every cell of the grid has exactly one possible state.
C2_AllDecidedMeansResolved ==
    (ret.op = "find" /\ ret.val = AllStatesDecided) =>
        \A pos \in Positions : Resolved(pos)

\* C3: for a cell with two or more possible states and positive frequencies,
\* entropy returns a finite, non-negative number, never NaN.
C3_EntropyFiniteNonNegative ==
    (/\ ret.op = "entropy"
     /\ Undecided(ret.pos)
     /\ \A i \in DOMAIN states : states[i].count > 0)
        => (ret.val.k = "fin" /\ ret.val.v >= 0)

\* C4: after collapse of a cell with at least one possible state, exactly one
\* state is possible, and every state possible after was possible before.
C4_CollapseLeavesOnePriorState ==
    ret.op = "collapse" =>
        /\ Resolved(ret.pos)
        /\ \A i \in DOMAIN StatesOf(ret.pos) : StatesOf(ret.pos)[i] => ret.before[i]

C4_Witness ==
    /\ ret.op = "collapse"
    /\ Cardinality({i \in DOMAIN ret.before : ret.before[i]}) >= 2
    /\ Resolved(ret.pos)

\* C5: with no contradicted cell and some cell of entropy above zero, the
\* selection returns Ok with a cell of the least positive entropy, the last
\* such cell in row-major order.
C5_SelectsLastMinimum ==
    (/\ ret.op = "find"
     /\ \A pos \in Positions : ~Contradicted(pos)
     /\ \E pos \in Positions : Gt(ShannonEntropy(pos), Fin(0)))
        => /\ ret.val.tag = "Ok"
           /\ Gt(ShannonEntropy(ret.val.at), Fin(0))
           /\ \A pos \in Positions :
                 Gt(ShannonEntropy(pos), Fin(0)) =>
                    /\ Le(ShannonEntropy(ret.val.at), ShannonEntropy(pos))
                    /\ ShannonEntropy(pos) = ShannonEntropy(ret.val.at)
                          => Rank(pos) <= Rank(ret.val.at)

\* C6: when some cell has no possible state, the selection returns
\* NoValidStates with the first such cell in row-major order, whatever the
\* other cells hold.
C6_FirstContradictionReported ==
    (ret.op = "find" /\ \E pos \in Positions : Contradicted(pos)) =>
        /\ ret.val.tag = "NoValidStates"
        /\ Contradicted(ret.val.at)
        /\ \A pos \in Positions : Contradicted(pos) => Rank(ret.val.at) <= Rank(pos)

C6_Witness ==
    /\ ret.op = "find"
    /\ ret.val.tag = "NoValidStates"
    /\ \E early, late \in Positions :
          /\ Rank(early) < Rank(ret.val.at)
          /\ Rank(ret.val.at) < Rank(late)
          /\ Undecided(early)
          /\ Contradicted(late)
          /\ late[1] > ret.val.at[1]
          /\ late[2] < ret.val.at[2]

C8_EntropyClassifiesCell ==
    ret.op = "entropy" =>
        /\ (ret.val = None) <=> Contradicted(ret.pos)
        /\ (ret.val = Fin(0)) <=> Resolved(ret.pos)

C8_Witness ==
    /\ ret.op = "entropy"
    /\ Resolved(ret.pos)
    /\ ret.val = Fin(0)
    /\ VecLen(states) >= 2
    /\ \E pos \in Positions : Contradicted(pos)
    /\ \E pos \in Positions : Undecided(pos)

\* C9: no state returned by valid_states_at_position has a pixel that lands on
\* a cell of the grid which forbids the pixel's colour.
C9_ReturnedStatesRespectColors ==
    ret.op = "valid_states" =>
        \A s \in Returned : \A coord \in PixelsOf(s) : ~Forbidden(s, ret.pos, coord)

\* a neighbouring cell is down to one colour, a state that overlaps it with
\* another colour is left out, and a state that agrees with it is returned
C9_Witness ==
    /\ ret.op = "valid_states"
    /\ Returned # {}
    /\ \E s \in DOMAIN states \ Returned : \E coord \in PixelsOf(s) :
          /\ Forbidden(s, ret.pos, coord)
          /\ Target(ret.pos, coord) # ret.pos
          /\ Cardinality({i \in DOMAIN palette :
                             ColorsOf(Target(ret.pos, coord))[i]}) = 1

\* C10: for a block size between 1 and the smaller side of the seed image, the
\* catalog holds each distinct block of the image once, and its frequencies add
\* up to (H - N + 1) * (W - N + 1).
C10_CatalogCountsEveryWindow ==
    LET h == Len(seed_image)
        w == Len(seed_image[1])
        n == block_size
        blocks == {Block(seed_image, <<r, c>>, n) : r \in 0..(h - n), c \in 0..(w - n)}
        counts == [i \in 1..VecLen(states) |-> states[i - 1].count]
    IN (pc = "ready" /\ n >= 1 /\ n <= h /\ n <= w) =>
          /\ \A i, j \in DOMAIN states : i # j => states[i].block # states[j].block
          /\ {states[i].block : i \in DOMAIN states} = blocks
          /\ SumUsize(counts, Len(counts)) = (h - n + 1) * (w - n + 1)

C10_Witness ==
    /\ pc = "ready"
    /\ block_size <= Len(seed_image)
    /\ block_size <= Len(seed_image[1])
    /\ VecLen(states) >= 2
    /\ \E i \in DOMAIN states : states[i].count >= 2

====
